---- MODULE Spec2Model ----
(***************************************************************************)
(* Model of calculate_covered_call_profit.py: the console prompts of main, *)
(* the two payoff functions, the key points main derives, and the slider   *)
(* callback update.                                                        *)
(*                                                                         *)
(* Numbers.  Python floats are modelled as exact integers counting ticks   *)
(* of 10^-5 currency units, so 1.5 is 150000 and the 0.01 dead zone of     *)
(* update is 1000.  Profits are ticks times shares.  The console entries   *)
(* of the model carry at most four decimals, so the factors 0.8 and 1.2    *)
(* are exact.  Rounding, overflow, inf and nan of IEEE doubles are outside *)
(* the model.                                                              *)
(***************************************************************************)
EXTENDS Integers, Sequences, FiniteSets, TLC

\* ---------------------------------------------------------------- bounds
\* invalid entries the console feeds to one prompt before a valid one
MaxRetries == 2
\* slider positions are taken this many ticks around the key prices
SliderSpan == 2
\* expiration prices probed this many steps around the key prices
ProbeSpan == 1

\* ------------------------------------------------------ program constants
\* ticks per currency unit: five decimals
TicksPerUnit == 100000
\* number of decimals of a tick
TickDecimals == 5
\* the 0.01 of "abs(difference) < 0.01", in ticks
DeadZone == 1000
\* "num_shares = num_contracts * 100"
SharesPerContract == 100

\* ------------------------------------------------------- console entries
\* One entry is the line input() returns, as a sequence of characters.
Entries ==
    { <<"1">>, <<" ", "+", "5">>, <<"0">>, <<"-", "1">>,
      <<"1", ".", "5">>, <<".", "5">>,
      <<>>, <<" ">>, <<"x">>, <<"-">>, <<".">>, <<"1", ".", "5", ".">> }

DigitValue ==
    [c \in {"0", "1", "2", "3", "4", "5", "6", "7", "8", "9"} |->
        CASE c = "0" -> 0 [] c = "1" -> 1 [] c = "2" -> 2 [] c = "3" -> 3
          [] c = "4" -> 4 [] c = "5" -> 5 [] c = "6" -> 6 [] c = "7" -> 7
          [] c = "8" -> 8 [] c = "9" -> 9]

IsDigit(c) == c \in DOMAIN DigitValue

RECURSIVE Pow10(_)
Pow10(k) == IF k = 0 THEN 1 ELSE 10 * Pow10(k - 1)

\* float() and int() ignore leading and trailing whitespace
RECURSIVE LStrip(_)
LStrip(e) == IF Len(e) > 0 /\ e[1] = " " THEN LStrip(Tail(e)) ELSE e

RECURSIVE RStrip(_)
RStrip(e) ==
    IF Len(e) > 0 /\ e[Len(e)] = " " THEN RStrip(SubSeq(e, 1, Len(e) - 1)) ELSE e

Strip(e) == RStrip(LStrip(e))

HasSign(e) == Len(e) > 0 /\ e[1] \in {"+", "-"}
Sign(e) == IF Len(e) > 0 /\ e[1] = "-" THEN -1 ELSE 1
Unsigned(e) == IF HasSign(e) THEN Tail(e) ELSE e

\* value of a sequence of digits read as a decimal numeral
RECURSIVE DigitsValue(_)
DigitsValue(ds) ==
    IF Len(ds) = 0 THEN 0
    ELSE 10 * DigitsValue(SubSeq(ds, 1, Len(ds) - 1)) + DigitValue[ds[Len(ds)]]

AllDigits(ds) == \A i \in 1..Len(ds) : IsDigit(ds[i])

PointAt(b) == IF \E i \in 1..Len(b) : b[i] = "."
              THEN CHOOSE i \in 1..Len(b) : b[i] = "." /\ \A j \in 1..(i - 1) : b[j] # "."
              ELSE Len(b) + 1
IntPart(b) == SubSeq(b, 1, PointAt(b) - 1)
FracPart(b) == SubSeq(b, PointAt(b) + 1, Len(b))

\* float(entry) does not raise ValueError: optional sign, digits with at most
\* one decimal point and at least one digit
FloatOk(entry) ==
    LET b == Unsigned(Strip(entry))
    IN  /\ AllDigits(IntPart(b))
        /\ AllDigits(FracPart(b))
        /\ Len(IntPart(b)) + Len(FracPart(b)) > 0
        /\ Len(FracPart(b)) <= TickDecimals

\* float(entry), in ticks
FloatOf(entry) ==
    LET s == Strip(entry)
        b == Unsigned(s)
    IN  Sign(s) * (DigitsValue(IntPart(b)) * TicksPerUnit
                   + DigitsValue(FracPart(b)) * Pow10(TickDecimals - Len(FracPart(b))))

\* int(entry) does not raise ValueError: optional sign and at least one digit
IntOk(entry) ==
    LET b == Unsigned(Strip(entry))
    IN  Len(b) > 0 /\ AllDigits(b)

\* int(entry)
IntOf(entry) ==
    LET s == Strip(entry)
    IN  Sign(s) * DigitsValue(Unsigned(s))


\* faulty variant of get_float_input: an invalid entry is retried silently
get_float_input_quiet(entry) ==
    IF FloatOk(entry)
    THEN [returned |-> TRUE, value |-> FloatOf(entry), printed |-> <<>>]
    ELSE [returned |-> FALSE, value |-> 0, printed |-> <<>>]

\* one pass of the loop of get_float_input on the entry input() returned
get_float_input(entry) ==
    IF FloatOk(entry)
    THEN [returned |-> TRUE, value |-> FloatOf(entry), printed |-> <<>>]
    ELSE [returned |-> FALSE, value |-> 0, printed |-> <<"invalid number">>]

\* faulty variant of get_int_input: "value >= 0" for "value > 0"
get_int_input_nonneg(entry) ==
    IF IntOk(entry)
    THEN IF IntOf(entry) >= 0
         THEN [returned |-> TRUE, value |-> IntOf(entry), printed |-> <<>>]
         ELSE [returned |-> FALSE, value |-> 0, printed |-> <<"not positive">>]
    ELSE [returned |-> FALSE, value |-> 0, printed |-> <<"invalid integer">>]

\* one pass of the loop of get_int_input on the entry input() returned
get_int_input(entry) ==
    IF IntOk(entry)
    THEN IF IntOf(entry) > 0
         THEN [returned |-> TRUE, value |-> IntOf(entry), printed |-> <<>>]
         ELSE [returned |-> FALSE, value |-> 0, printed |-> <<"not positive">>]
    ELSE [returned |-> FALSE, value |-> 0, printed |-> <<"invalid integer">>]

\* ------------------------------------------------------- payoff functions
\* faulty variant of calculate_covered_call_profit: the premium is left out
ccp_no_premium(expiration_price, purchase, strike, premium, shares) ==
    IF expiration_price <= strike
    THEN (expiration_price - purchase) * shares
    ELSE (strike - purchase) * shares

\* faulty variant of calculate_covered_call_profit: the stock leg is not capped
ccp_no_cap(expiration_price, purchase, strike, premium, shares) ==
    (expiration_price - purchase) * shares + premium * shares

\* faulty variant of calculate_covered_call_profit: the capped branch forgets
\* the purchase price
ccp_jump(expiration_price, purchase, strike, premium, shares) ==
    LET total_premium == premium * shares
        stock_profit == IF expiration_price <= strike
                        THEN (expiration_price - purchase) * shares
                        ELSE strike * shares
    IN  stock_profit + total_premium

calculate_covered_call_profit(expiration_price, purchase, strike, premium, shares) ==
    LET total_premium == premium * shares
        stock_profit == IF expiration_price <= strike
                        THEN (expiration_price - purchase) * shares
                        ELSE (strike - purchase) * shares
    IN  stock_profit + total_premium

\* faulty variant of calculate_buy_and_hold_profit: the operands are swapped
bh_swapped(expiration_price, purchase, shares) ==
    (purchase - expiration_price) * shares

calculate_buy_and_hold_profit(expiration_price, purchase, shares) ==
    (expiration_price - purchase) * shares

Abs(x) == IF x < 0 THEN -x ELSE x
Min(a, b) == IF b < a THEN b ELSE a

\* x * 0.8 and x * 1.2 on ticks
Times08(x) == (x * 8) \div 10
Times12(x) == (x * 12) \div 10

\* faulty variant of conclusion_str: "<= 0.01" for "< 0.01"
conclusion_str_closed(difference) ==
    IF Abs(difference) <= DeadZone THEN [kind |-> "equal"]
    ELSE IF difference > 0 THEN [kind |-> "more", amount |-> difference]
    ELSE [kind |-> "less", amount |-> Abs(difference)]

\* the conclusion line of update: which sentence, and the amount it shows
conclusion_str(difference) ==
    IF Abs(difference) < DeadZone THEN [kind |-> "equal"]
    ELSE IF difference > 0 THEN [kind |-> "more", amount |-> difference]
    ELSE [kind |-> "less", amount |-> Abs(difference)]

\* faulty variant of update: the buy-and-hold marker is given cc_profit
update_wrong_marker(val, purchase, strike, premium, shares) ==
    LET current_price == val
        cc_profit == calculate_covered_call_profit(current_price, purchase, strike,
                                                   premium, shares)
        bh_profit == calculate_buy_and_hold_profit(current_price, purchase, shares)
        difference == cc_profit - bh_profit
    IN  [cc_marker |-> <<current_price, cc_profit>>,
         bh_marker |-> <<current_price, cc_profit>>,
         summary   |-> [price |-> current_price, cc |-> cc_profit, bh |-> bh_profit,
                        conclusion |-> conclusion_str(difference)]]

\* what update(val) hands to the two markers and to the summary text
update(val, purchase, strike, premium, shares) ==
    LET current_price == val
        cc_profit == calculate_covered_call_profit(current_price, purchase, strike,
                                                   premium, shares)
        bh_profit == calculate_buy_and_hold_profit(current_price, purchase, shares)
        difference == cc_profit - bh_profit
    IN  [cc_marker |-> <<current_price, cc_profit>>,
         bh_marker |-> <<current_price, bh_profit>>,
         summary   |-> [price |-> current_price, cc |-> cc_profit, bh |-> bh_profit,
                        conclusion |-> conclusion_str(difference)]]

\* ------------------------------------------------------------------ state
VARIABLES
    pc,                        \* position in main
    prompt,                    \* the prompt the console counters belong to
    reads,                     \* input() calls made by that prompt
    printed,                   \* messages printed by that prompt
    lastEntry,                 \* the entry the last input() returned
    purchase_price, num_contracts, num_shares, strike_price,
    premium_per_share, initial_expiration_price,
    plot_min_price, plot_max_price,
    max_profit, crossover_price, crossover_profit,
    price_slider,              \* price_slider.val
    cc_marker, bh_marker,      \* data of the two moving markers
    summary_text_obj           \* content of the summary text

console == <<prompt, reads, printed, lastEntry>>
params == <<purchase_price, num_contracts, num_shares, strike_price,
            premium_per_share, initial_expiration_price>>
chart == <<plot_min_price, plot_max_price, max_profit, crossover_price,
           crossover_profit, price_slider>>
dynamic == <<cc_marker, bh_marker, summary_text_obj>>
vars == <<pc, console, params, chart, dynamic>>

Prompts == {"purchase_price", "num_contracts", "strike_price",
            "premium_per_share", "initial_expiration_price"}

Init ==
    /\ pc = "purchase_price"
    /\ prompt = "none"
    /\ reads = 0
    /\ printed = <<>>
    /\ lastEntry = <<>>
    /\ purchase_price = 0
    /\ num_contracts = 0
    /\ num_shares = 0
    /\ strike_price = 0
    /\ premium_per_share = 0
    /\ initial_expiration_price = 0
    /\ plot_min_price = 0
    /\ plot_max_price = 0
    /\ max_profit = 0
    /\ crossover_price = 0
    /\ crossover_profit = 0
    /\ price_slider = 0
    /\ cc_marker = <<>>
    /\ bh_marker = <<>>
    /\ summary_text_obj = [kind |-> "empty"]

\* the console counters as the running prompt sees them: a prompt that has
\* not read yet starts from nothing
ReadsSoFar == IF prompt = pc THEN reads ELSE 0
PrintedSoFar == IF prompt = pc THEN printed ELSE <<>>

\* input() returns entry to the prompt at pc, whose loop pass gave r
Console(entry, r) ==
    /\ r.returned \/ Len(PrintedSoFar) < MaxRetries
    /\ prompt' = pc
    /\ reads' = ReadsSoFar + 1
    /\ printed' = PrintedSoFar \o r.printed
    /\ lastEntry' = entry

ReadPurchasePrice ==
    /\ pc = "purchase_price"
    /\ \E entry \in Entries :
        LET r == get_float_input(entry)
        IN  /\ Console(entry, r)
            /\ purchase_price' = IF r.returned THEN r.value ELSE purchase_price
            /\ pc' = IF r.returned THEN "num_contracts" ELSE pc
    /\ UNCHANGED <<num_contracts, num_shares, strike_price, premium_per_share,
                   initial_expiration_price, chart, dynamic>>

ReadContracts ==
    /\ pc = "num_contracts"
    /\ \E entry \in Entries :
        LET r == get_int_input(entry)
        IN  /\ Console(entry, r)
            /\ num_contracts' = IF r.returned THEN r.value ELSE num_contracts
            /\ num_shares' = IF r.returned THEN r.value * SharesPerContract
                             ELSE num_shares
            /\ pc' = IF r.returned THEN "strike_price" ELSE pc
    /\ UNCHANGED <<purchase_price, strike_price, premium_per_share,
                   initial_expiration_price, chart, dynamic>>

ReadStrikePrice ==
    /\ pc = "strike_price"
    /\ \E entry \in Entries :
        LET r == get_float_input(entry)
        IN  /\ Console(entry, r)
            /\ strike_price' = IF r.returned THEN r.value ELSE strike_price
            /\ pc' = IF r.returned THEN "premium_per_share" ELSE pc
    /\ UNCHANGED <<purchase_price, num_contracts, num_shares, premium_per_share,
                   initial_expiration_price, chart, dynamic>>

ReadPremium ==
    /\ pc = "premium_per_share"
    /\ \E entry \in Entries :
        LET r == get_float_input(entry)
        IN  /\ Console(entry, r)
            /\ premium_per_share' = IF r.returned THEN r.value ELSE premium_per_share
            /\ pc' = IF r.returned THEN "initial_expiration_price" ELSE pc
    /\ UNCHANGED <<purchase_price, num_contracts, num_shares, strike_price,
                   initial_expiration_price, chart, dynamic>>

ReadInitialPrice ==
    /\ pc = "initial_expiration_price"
    /\ \E entry \in Entries :
        LET r == get_float_input(entry)
        IN  /\ Console(entry, r)
            /\ initial_expiration_price' =
                   IF r.returned THEN r.value ELSE initial_expiration_price
            /\ pc' = IF r.returned THEN "setup" ELSE pc
    /\ UNCHANGED <<purchase_price, num_contracts, num_shares, strike_price,
                   premium_per_share, chart, dynamic>>

\* input() raises EOFError, which neither helper catches
EndOfInput ==
    /\ pc \in Prompts
    /\ pc' = "fatal"
    /\ UNCHANGED <<console, params, chart, dynamic>>

\* the value a Slider keeps: clipped to [valmin, valmax]
SliderInBounds(val, valmin, valmax) ==
    IF val <= valmin THEN valmin
    ELSE IF val >= valmax THEN valmax
    ELSE val

\* main from the static curves to the creation of the slider
Setup ==
    /\ pc = "setup"
    /\ plot_min_price' = Times08(Min(purchase_price, strike_price))
    /\ plot_max_price' = Times12(strike_price + premium_per_share)
    /\ max_profit' = calculate_covered_call_profit(strike_price, purchase_price,
                         strike_price, premium_per_share, num_shares)
    /\ crossover_price' = strike_price + premium_per_share
    /\ crossover_profit' = calculate_buy_and_hold_profit(crossover_price',
                               purchase_price, num_shares)
    /\ price_slider' = SliderInBounds(initial_expiration_price,
                                      plot_min_price', plot_max_price')
    /\ pc' = "update"
    /\ UNCHANGED <<console, params, dynamic>>

\* update applied to val
Redraw(val) ==
    LET u == update(val, purchase_price, strike_price, premium_per_share, num_shares)
    IN  /\ cc_marker' = u.cc_marker
        /\ bh_marker' = u.bh_marker
        /\ summary_text_obj' = u.summary

\* main: update(initial_expiration_price), then plt.show()
InitialUpdate ==
    /\ pc = "update"
    /\ Redraw(initial_expiration_price)
    /\ pc' = "show"
    /\ UNCHANGED <<console, params, chart>>

\* the prices the slider is dragged to in the model
SliderPositions ==
    {crossover_price + j : j \in -SliderSpan..SliderSpan}
        \cup {plot_min_price, plot_max_price, strike_price}

\* a slider change event: the slider takes the value and calls update with it
SliderChanged ==
    /\ pc = "show"
    /\ \E pos \in SliderPositions :
        LET val == SliderInBounds(pos, plot_min_price, plot_max_price)
        IN  /\ price_slider' = val
            /\ Redraw(val)
    /\ UNCHANGED <<pc, console, params, plot_min_price, plot_max_price, max_profit,
                   crossover_price, crossover_profit>>

\* the window is closed: plt.show() returns and main ends
WindowClosed ==
    /\ pc = "show"
    /\ pc' = "closed"
    /\ UNCHANGED <<console, params, chart, dynamic>>

Next ==
    \/ ReadPurchasePrice
    \/ ReadContracts
    \/ ReadStrikePrice
    \/ ReadPremium
    \/ ReadInitialPrice
    \/ EndOfInput
    \/ Setup
    \/ InitialUpdate
    \/ SliderChanged
    \/ WindowClosed

Spec == Init /\ [][Next]_vars

TypeOK ==
    /\ pc \in Prompts \cup {"setup", "update", "show", "closed", "fatal"}
    /\ reads \in 0..(MaxRetries + 1)
    /\ Len(printed) <= MaxRetries
    /\ lastEntry \in Entries


\* ------------------------------------------------------------ vocabulary
FloatPrompts == Prompts \ {"num_contracts"}

\* the local of main a float prompt assigns
FloatVar(p) ==
    CASE p = "purchase_price" -> purchase_price
      [] p = "strike_price" -> strike_price
      [] p = "premium_per_share" -> premium_per_share
      [] p = "initial_expiration_price" -> initial_expiration_price

\* the prompt p is running: it has consumed an entry and has not returned
Running(p) == prompt = p /\ pc = p

\* the prompt p was the last to return
Returned(p) == prompt = p /\ pc \notin {p, "fatal"}

\* this step consumed one console entry
ReadStep == <<prompt, reads>>' # <<prompt, reads>>

\* main has just read the last of its parameters; none of them changes later
ParamsRead == pc = "setup"

\* main has derived the key points
KeyPointsSet == pc \in {"update", "show", "closed"}

\* update has run at least once
Updated == pc \in {"show", "closed"}

CC(e) == calculate_covered_call_profit(e, purchase_price, strike_price,
                                       premium_per_share, num_shares)
BH(e) == calculate_buy_and_hold_profit(e, purchase_price, num_shares)
Diff(e) == CC(e) - BH(e)

\* expiration prices around the key prices, one tick and one unit apart
ProbePrices ==
    UNION { {k + j, k + j * TicksPerUnit} :
              k \in {0, purchase_price, strike_price, strike_price + premium_per_share},
              j \in -ProbeSpan..ProbeSpan }

\* expiration prices on both sides of the strike, from which domains are built
DomainPrices == {strike_price + j : j \in -(ProbeSpan + 1)..(ProbeSpan + 1)}
Domains == SUBSET DomainPrices \ {{}}

MaxOf(S) == CHOOSE x \in S : \A y \in S : y <= x


\* ----------------------------------------------------------------- claims

\* C1: calculate_covered_call_profit returns (expiration_price - purchase_price)
\* * num_shares + premium_per_share * num_shares at or below the strike, and
\* (strike_price - purchase_price) * num_shares + premium_per_share * num_shares
\* above it, where it does not depend on expiration_price; the profit update
\* puts on the covered-call marker is that value.
C1_PayoffFormula ==
    /\ ParamsRead =>
         \A e \in ProbePrices :
            /\ e <= strike_price =>
                 CC(e) = (e - purchase_price) * num_shares
                         + premium_per_share * num_shares
            /\ e > strike_price =>
                 CC(e) = (strike_price - purchase_price) * num_shares
                         + premium_per_share * num_shares
    /\ Updated =>
         cc_marker[2] =
            IF cc_marker[1] <= strike_price
            THEN (cc_marker[1] - purchase_price) * num_shares
                 + premium_per_share * num_shares
            ELSE (strike_price - purchase_price) * num_shares
                 + premium_per_share * num_shares

\* C1 witness: update has placed the marker above the strike, at the capped value
C1_Witness ==
    /\ pc = "show"
    /\ cc_marker[1] > strike_price
    /\ strike_price # purchase_price
    /\ premium_per_share > 0
    /\ cc_marker[2] = (strike_price - purchase_price + premium_per_share) * num_shares

\* C2 as stated: over EVERY non-empty domain of expiration prices the maximum
\* of calculate_covered_call_profit is its value at the strike.
C2_MaxOverAnyDomain ==
    ParamsRead =>
        \A D \in Domains : MaxOf({CC(e) : e \in D}) = CC(strike_price)

\* C2 amended: with num_shares > 0 the profit never exceeds its value at the
\* strike, equals it at every price at or above the strike, so that the
\* maximum over every non-empty domain holding a price at or above the strike
\* is the value at the strike, which is what main stores in max_profit.
C2_MaxAtStrike ==
    /\ ParamsRead =>
         /\ num_shares > 0
         /\ \A e \in ProbePrices \cup DomainPrices :
               /\ CC(e) <= CC(strike_price)
               /\ e >= strike_price => CC(e) = CC(strike_price)
               /\ e < strike_price => CC(e) < CC(strike_price)
         /\ \A D \in Domains :
               (\E e \in D : e >= strike_price) =>
                   MaxOf({CC(e) : e \in D}) = CC(strike_price)
    /\ KeyPointsSet =>
         max_profit = (strike_price - purchase_price) * num_shares
                      + premium_per_share * num_shares
    /\ Updated => cc_marker[2] <= max_profit

\* C2 witness: the marker sits above the strike and shows exactly max_profit
C2_Witness ==
    /\ pc = "show"
    /\ cc_marker[1] > strike_price
    /\ cc_marker[2] = max_profit
    /\ max_profit > 0

\* C3: the difference between the two strategies is zero at the crossover
\* price strike_price + premium_per_share, for every input the prompts accept:
\* crossover_profit equals the covered-call profit at crossover_price.
C3_CrossoverZeroDiff ==
    KeyPointsSet =>
        /\ crossover_price = strike_price + premium_per_share
        /\ crossover_profit = CC(crossover_price)
        /\ Diff(crossover_price) = 0

\* C4: above the strike the difference covered call minus buy-and-hold is
\* strictly decreasing in the expiration price, and buy-and-hold is strictly
\* better at every price above strike_price + premium_per_share.
C4_DiffStrictlyDecreasing ==
    /\ ParamsRead =>
         /\ num_shares > 0
         /\ \A p1, p2 \in ProbePrices :
               (strike_price < p1 /\ p1 < p2) => Diff(p1) > Diff(p2)
         /\ \A e \in ProbePrices :
               e > strike_price + premium_per_share => BH(e) > CC(e)
    /\ Updated =>
         (cc_marker[1] > strike_price + premium_per_share
             => bh_marker[2] > cc_marker[2])

\* C4 witness: the slider stands above the crossover and buy-and-hold leads
C4_Witness ==
    /\ pc = "show"
    /\ premium_per_share > 0
    /\ cc_marker[1] > crossover_price
    /\ bh_marker[2] > cc_marker[2]

\* C5: no jump at the strike: the branch for expiration_price <= strike_price
\* gives at the strike the capped value of the other branch, and a move of d
\* across the strike changes the profit by at most d * num_shares.
C5_NoJumpAtStrike ==
    /\ ParamsRead =>
         /\ CC(strike_price) = (strike_price - purchase_price) * num_shares
                               + premium_per_share * num_shares
         /\ \A e1, e2 \in ProbePrices \cup DomainPrices :
               (e1 <= strike_price /\ strike_price < e2) =>
                   Abs(CC(e2) - CC(e1)) <= (e2 - e1) * num_shares
    /\ Updated =>
         Abs(cc_marker[2] - max_profit) <= Abs(cc_marker[1] - strike_price) * num_shares

\* C5 witness: the marker is one tick above the strike and shows the profit
\* of the strike
C5_Witness ==
    /\ pc = "show"
    /\ cc_marker[1] = strike_price + 1
    /\ purchase_price # 0
    /\ cc_marker[2] = max_profit

\* C9: the plotted range [plot_min_price, plot_max_price] is not empty and
\* holds the crossover price, for every input the prompts accept.
C9_CrossoverInView ==
    KeyPointsSet =>
        /\ plot_min_price <= plot_max_price
        /\ plot_min_price <= crossover_price
        /\ crossover_price <= plot_max_price


\* the console of a float prompt: one message per invalid entry, the value of
\* the first valid entry returned
FloatPromptState ==
    \A p \in FloatPrompts :
        /\ Running(p) =>
             /\ ~FloatOk(lastEntry)
             /\ reads = Len(printed)
        /\ Returned(p) =>
             /\ FloatOk(lastEntry)
             /\ FloatVar(p) = FloatOf(lastEntry)
             /\ reads = Len(printed) + 1
        /\ prompt = p => \A i \in 1..Len(printed) : printed[i] = "invalid number"

FloatPromptStep ==
    \A p \in FloatPrompts :
        (pc = p /\ ReadStep) =>
            /\ reads' = ReadsSoFar + 1
            /\ IF FloatOk(lastEntry')
               THEN /\ pc' # pc
                    /\ printed' = PrintedSoFar
               ELSE /\ pc' = pc
                    /\ printed' = Append(PrintedSoFar, "invalid number")
                    /\ UNCHANGED params

\* C6: get_float_input fed k non-numeric entries and then a valid number
\* returns that number, has printed k messages, one per invalid entry and
\* none for the valid one, and has consumed k + 1 entries.
C6_FloatInputLoop == []FloatPromptState /\ [][FloatPromptStep]_vars

\* C6 witness: the strike prompt returned 1.5 after two invalid entries
C6_Witness ==
    /\ Returned("strike_price")
    /\ lastEntry = <<"1", ".", "5">>
    /\ strike_price = 150000
    /\ reads = 3
    /\ printed = <<"invalid number", "invalid number">>

IntPromptState ==
    /\ num_contracts >= 0
    /\ num_shares = num_contracts * 100
    /\ pc \in {"strike_price", "premium_per_share", "initial_expiration_price",
               "setup", "update", "show", "closed"} => num_contracts > 0
    /\ Running("num_contracts") =>
         /\ ~(IntOk(lastEntry) /\ IntOf(lastEntry) > 0)
         /\ reads = Len(printed)
         /\ num_contracts = 0
    /\ Returned("num_contracts") =>
         /\ IntOk(lastEntry)
         /\ num_contracts = IntOf(lastEntry)
         /\ reads = Len(printed) + 1

IntPromptStep ==
    /\ (pc = "num_contracts" /\ ReadStep) =>
          IF IntOk(lastEntry') /\ IntOf(lastEntry') > 0
          THEN /\ pc' = "strike_price"
               /\ printed' = PrintedSoFar
          ELSE /\ pc' = pc
               /\ Len(printed') = Len(PrintedSoFar) + 1
               /\ UNCHANGED params
    /\ pc # "num_contracts" => UNCHANGED <<num_contracts, num_shares>>

\* C7: get_int_input never returns a value <= 0: every entry that is not a
\* positive integer costs one message and another prompt, the first positive
\* integer is returned, and num_shares is num_contracts * 100, a positive
\* multiple of 100 in every profit computation.
C7_PositiveContracts == []IntPromptState /\ [][IntPromptStep]_vars

\* C7 witness: the prompt returned 5 contracts, hence 500 shares, after one
\* non-positive entry and one entry that is no integer
C7_Witness ==
    /\ Returned("num_contracts")
    /\ printed = <<"not positive", "invalid integer">>
    /\ reads = 3
    /\ num_contracts = 5
    /\ num_shares = 500

\* C8: update picks the conclusion from d = cc_profit - bh_profit: "equal"
\* exactly when |d| < 0.01, "more" with amount d exactly when d >= 0.01,
\* "less" with amount |d| exactly when d <= -0.01; the amount is never negative.
C8_ConclusionByDifference ==
    Updated =>
        LET d == cc_marker[2] - bh_marker[2]
            c == summary_text_obj.conclusion
        IN  /\ c.kind \in {"equal", "more", "less"}
            /\ c.kind = "equal" <=> (-DeadZone < d /\ d < DeadZone)
            /\ c.kind = "more" <=> d >= DeadZone
            /\ c.kind = "less" <=> d <= -DeadZone
            /\ c.kind = "more" => c.amount = d
            /\ c.kind = "less" => c.amount = -d
            /\ c.kind # "equal" => c.amount >= 0

\* C8 witness: the difference is exactly -0.01 and the conclusion is "less"
C8_Witness ==
    /\ pc = "show"
    /\ cc_marker[2] - bh_marker[2] = -DeadZone
    /\ summary_text_obj.conclusion = [kind |-> "less", amount |-> DeadZone]

\* after every call of update the markers and the text belong to one price
RedrawnState ==
    pc = "show" =>
        LET v == summary_text_obj.price
        IN  /\ v \in {initial_expiration_price, price_slider}
            /\ cc_marker = <<v, (IF v <= strike_price THEN v - purchase_price
                                 ELSE strike_price - purchase_price) * num_shares
                                + premium_per_share * num_shares>>
            /\ bh_marker = <<v, (v - purchase_price) * num_shares>>
            /\ summary_text_obj.cc = cc_marker[2]
            /\ summary_text_obj.bh = bh_marker[2]
            /\ summary_text_obj.conclusion.kind =
                  IF Abs(cc_marker[2] - bh_marker[2]) < DeadZone THEN "equal"
                  ELSE IF cc_marker[2] > bh_marker[2] THEN "more" ELSE "less"
            /\ ENABLED SliderChanged

RedrawnStep ==
    /\ (pc = "update" /\ pc' = "show") =>
          summary_text_obj'.price = initial_expiration_price
    /\ (pc = "show" /\ pc' = "show") =>
          /\ summary_text_obj'.price = price_slider'
          /\ cc_marker'[1] = price_slider'
          /\ bh_marker'[1] = price_slider'
    /\ pc \in {"update", "show"} =>
          UNCHANGED <<purchase_price, strike_price, premium_per_share, num_shares>>

\* C10: after update(initial_expiration_price) and after every slider event
\* with value v the two markers sit at (v, covered-call profit at v) and
\* (v, buy-and-hold profit at v) and the text is the one of v; update changes
\* none of the parameters and a further slider event is always possible
\* while the window is open.
C10_MarkersFollowSlider == []RedrawnState /\ [][RedrawnStep]_vars

\* C10 witness: a slider event has moved both markers off the initial price
C10_Witness ==
    /\ pc = "show"
    /\ price_slider # initial_expiration_price
    /\ plot_min_price < initial_expiration_price
    /\ initial_expiration_price < plot_max_price
    /\ cc_marker[1] = price_slider
    /\ bh_marker[1] = price_slider
    /\ cc_marker[2] # bh_marker[2]

====
